---- MODULE Spec2Model ----
(***************************************************************************)
(* screed: FASTA / FASTQ / hava text  ->  on-disk store  ->  read-only     *)
(* dictionary view  ->  FASTA / FASTQ text.                                *)
(*                                                                         *)
(* Text is a sequence of one-character strings.  A text file is the        *)
(* sequence of its lines (without the terminating newline); readline()     *)
(* gives a line back with its newline, or the empty string at end of file. *)
(***************************************************************************)
EXTENDS Integers, Sequences, FiniteSets, TLC

VARIABLES
    dir,      \* the directory: path -> inode, or NoInode
    files,    \* inode -> file content (text file or store file)
    build,    \* the running read_*_sequences / create_db call
    it,       \* the record iterator (fqiter / faiter / havaiter generator)
    db,       \* the screedDB instance of the caller
    result,   \* what the last screedDB call gave back to its caller
    rt        \* the caller: its recovery (toFasta / toFastq and back) run, or
              \* "beside" when the store is read beside a running build

vars == <<dir, files, build, it, db, result, rt>>

(***************************************************************************)
(* Bounds of the model.                                                    *)
(***************************************************************************)
MaxLines == 4        \* lines in a source text file
MaxEofReads == 8     \* readline() calls at end of file the model follows
RtMaxLines == 4      \* lines in a source text file of a recovery run
RbMaxLines == 2      \* lines in a source text file of a build with a reader beside it

(***************************************************************************)
(* Program constants.                                                      *)
(***************************************************************************)
_MAXLINELEN == 80
_null_accuracy == "\""
fileExtension == "_screed"

FASTQFIELDTYPES == <<"name", "annotations", "sequence", "accuracy">>
FASTAFIELDTYPES == <<"name", "description", "sequence">>
HAVAFIELDS == <<"hava", "quarzk", "muchalo", "fakours", "selimizicka", "marshoon">>

(***************************************************************************)
(* Python string operations.                                               *)
(***************************************************************************)
Whitespace == {" ", "\n"}

RECURSIVE lstrip(_)
lstrip(s) ==
    IF s # <<>> /\ Head(s) \in Whitespace THEN lstrip(Tail(s)) ELSE s

RECURSIVE rstrip(_)
rstrip(s) ==
    IF s # <<>> /\ s[Len(s)] \in Whitespace
    THEN rstrip(SubSeq(s, 1, Len(s) - 1))
    ELSE s

strip(s) == rstrip(lstrip(s))

startswith(s, c) == s # <<>> /\ s[1] = c

\* Position of the first c in s, 0 when there is none.
find(s, c) ==
    IF \E i \in 1..Len(s) : s[i] = c
    THEN CHOOSE i \in 1..Len(s) : s[i] = c /\ \A j \in 1..(i - 1) : s[j] # c
    ELSE 0

\* s.split(' ', 1): one or two pieces.
split1(s) ==
    LET i == find(s, " ")
    IN  IF i = 0 THEN <<s>>
        ELSE <<SubSeq(s, 1, i - 1), SubSeq(s, i + 1, Len(s))>>

\* ''.join(list)
RECURSIVE join(_)
join(ss) == IF ss = <<>> THEN <<>> ELSE Head(ss) \o join(Tail(ss))

\* '\n'.join(list)
RECURSIVE joinNL(_)
joinNL(ss) ==
    IF ss = <<>> THEN <<>>
    ELSE IF Len(ss) = 1 THEN Head(ss)
    ELSE Head(ss) \o <<"\n">> \o joinNL(Tail(ss))

\* The lines of a text written to a file, as readline() later gives them
\* (each without its newline).  Every write of the serializer ends with a
\* newline, so the text after the last newline is empty and is no line.
RECURSIVE splitlines(_)
splitlines(t) ==
    LET i == find(t, "\n")
    IN  IF t = <<>> THEN <<>>
        ELSE IF i = 0 THEN <<t>>
        ELSE <<SubSeq(t, 1, i - 1)>> \o splitlines(SubSeq(t, i + 1, Len(t)))

(***************************************************************************)
(* The record iterators.  A generator is the record                        *)
(*   kind   which parser                                                   *)
(*   pc     where it stands: "new" (not started), "head", "seq", "acc",    *)
(*          "yield" (a record is handed out), "stop" (StopIteration),      *)
(*          "error" (IOError raised)                                       *)
(*   lines, pos   the handle it reads: the file's lines and the next one   *)
(*   line   the local variable line                                        *)
(*   data   the dictionary it yields                                       *)
(*   seq, acc   the local lists sequence / sequenceList and accuracy       *)
(*   eof    how many readline() calls hit end of file                      *)
(***************************************************************************)
NoData == [f \in {} |-> <<>>]

NewIter(kind, lines) ==
    [kind |-> kind, pc |-> "new", lines |-> lines, pos |-> 1, line |-> <<>>,
     data |-> NoData, seq |-> <<>>, acc |-> <<>>, eof |-> 0]

AtEof(g) == g.pos > Len(g.lines)

\* line = handle.readline().strip()
readline(g) ==
    IF AtEof(g)
    THEN [g EXCEPT !.line = strip(<<>>), !.eof = @ + 1]
    ELSE [g EXCEPT !.line = strip(g.lines[g.pos] \o <<"\n">>), !.pos = @ + 1]

\* name, rest = line[1:].split(' ', 1), with the ValueError branch
HeaderFields(line, second) ==
    LET parts == split1(Tail(line))
    IN  IF Len(parts) = 2
        THEN [f \in {"name", second} |-> IF f = "name" THEN parts[1] ELSE parts[2]]
        ELSE [f \in {"name", second} |-> IF f = "name" THEN Tail(line) ELSE <<>>]

\* d.update(upd) on dictionaries
Updated(d, upd) ==
    [f \in DOMAIN d \cup DOMAIN upd |-> IF f \in DOMAIN upd THEN upd[f] ELSE d[f]]

Put(d, key, value) == Updated(d, [f \in {key} |-> value])

\* The first call of next(): the generator runs from its top to the loop test.
iter_first(g) == [readline(g) EXCEPT !.pc = "head"]

\* fqiter, from the test of "while line" to the first sequence line.
fqiter_head(g) ==
    IF g.line = <<>> THEN [g EXCEPT !.pc = "stop"]
    ELSE IF ~startswith(g.line, "@") THEN [g EXCEPT !.pc = "error"]
    ELSE LET h == [g EXCEPT !.data = Updated(@, HeaderFields(g.line, "annotations")),
                            !.seq = <<>>]
         IN  [readline(h) EXCEPT !.pc = "seq"]

\* fqiter, one test of "while not line.startswith('+')".
fqiter_seq(g) ==
    IF startswith(g.line, "+")
    THEN LET h == [g EXCEPT !.data = Put(@, "sequence", join(g.seq)), !.acc = <<>>]
         IN  [readline(h) EXCEPT !.pc = "acc"]
    ELSE readline([g EXCEPT !.seq = Append(@, g.line)])

\* fqiter, one test of "while not line.startswith('@') and not line == ''",
\* then the length check and the yield.
fqiter_acc(g) ==
    IF ~startswith(g.line, "@") /\ g.line # <<>>
    THEN readline([g EXCEPT !.acc = Append(@, g.line)])
    ELSE LET h == [g EXCEPT !.data = Put(@, "accuracy", join(g.acc))]
         IN  IF Len(h.data["sequence"]) # Len(h.data["accuracy"])
             THEN [h EXCEPT !.pc = "error"]
             ELSE [h EXCEPT !.pc = "yield"]

\* faiter, from the test of "while line != ''" to the first sequence line.
faiter_head(g) ==
    IF g.line = <<>> THEN [g EXCEPT !.pc = "stop"]
    ELSE IF ~startswith(g.line, ">") THEN [g EXCEPT !.pc = "error"]
    ELSE LET hf == HeaderFields(g.line, "description")
             h == [g EXCEPT !.data = Updated(@, [f \in DOMAIN hf |-> strip(hf[f])]),
                            !.seq = <<>>]
         IN  [readline(h) EXCEPT !.pc = "seq"]

\* faiter, one test of "while line != '' and not line.startswith('>')".
faiter_seq(g) ==
    IF g.line # <<>> /\ ~startswith(g.line, ">")
    THEN readline([g EXCEPT !.seq = Append(@, g.line)])
    ELSE [g EXCEPT !.data = Put(@, "sequence", join(g.seq)), !.pc = "yield"]

\* havaiter: data[field] = handle.readline().strip() for the fields after the first.
RECURSIVE hava_fields(_, _)
hava_fields(g, k) ==
    IF k > Len(HAVAFIELDS) THEN g
    ELSE LET h == readline(g)
         IN  hava_fields([h EXCEPT !.line = g.line,
                                   !.data = Put(@, HAVAFIELDS[k], h.line)], k + 1)

\* havaiter, one turn of "while line".
havaiter_head(g) ==
    IF g.line = <<>> THEN [g EXCEPT !.pc = "stop"]
    ELSE LET h == hava_fields([g EXCEPT !.data = Put(@, HAVAFIELDS[1], g.line)], 2)
         IN  [readline(h) EXCEPT !.pc = "yield"]

\* The statement after the yield: back to the loop test.
iter_resume(g) == [g EXCEPT !.pc = "head"]

\* One step of a generator that is not suspended: the code from its place to
\* the next loop test, yield, return or raise.
next(g) ==
    CASE g.pc = "new" -> iter_first(g)
      [] g.kind = "fastq" /\ g.pc = "head" -> fqiter_head(g)
      [] g.kind = "fastq" /\ g.pc = "seq" -> fqiter_seq(g)
      [] g.kind = "fastq" /\ g.pc = "acc" -> fqiter_acc(g)
      [] g.kind = "fasta" /\ g.pc = "head" -> faiter_head(g)
      [] g.kind = "fasta" /\ g.pc = "seq" -> faiter_seq(g)
      [] g.kind = "hava" /\ g.pc = "head" -> havaiter_head(g)
      [] OTHER -> g

\* list(iterator): the records a generator yields until it stops or raises,
\* followed for at most MaxEofReads reads at end of file ("hang" beyond).
RECURSIVE Drain(_, _)
Drain(g, out) ==
    IF g.pc \in {"stop", "error"} THEN [pc |-> g.pc, records |-> out]
    ELSE IF g.pc = "yield" THEN Drain(iter_resume(g), Append(out, g.data))
    ELSE IF g.eof >= MaxEofReads THEN [pc |-> "hang", records |-> out]
    ELSE Drain(next(g), out)

Parsed(kind, lines) == Drain(NewIter(kind, lines), <<>>)

(***************************************************************************)
(* The file system and the store file.                                     *)
(*                                                                         *)
(* A path is a sequence of name pieces; the store's extension is one piece.*)
(* The directory maps a path to an inode; an unlinked file lives on for    *)
(* the handles that are open on it.                                        *)
(* A store file holds the admin table (the field names, in order) and the  *)
(* dictionary table: the committed rows [id, rec].                         *)
(***************************************************************************)
SourceName == <<"reads">>
StoreName == <<"reads", fileExtension>>
OutName == <<"recovered">>
OutStoreName == <<"recovered", fileExtension>>
\* The rollback journal sqlite keeps beside a store file during a transaction.
JournalOf(path) == Append(path, "-journal")
JournalName == JournalOf(StoreName)
Paths == {SourceName, StoreName, OutName, OutStoreName, JournalName}

NoInode == "no file"
SourceInode == "source text"
OldInode == "old store"
NewInode == "new store"
OutInode == "written text"
OutStoreInode == "store of the written text"
JournalInode == "journal of the new store"
Inodes == {SourceInode, OldInode, NewInode, OutInode, OutStoreInode, JournalInode}

NoFile == [kind |-> "none"]
TextFile(lines) == [kind |-> "text", lines |-> lines]
StoreFile(fields, rows) == [kind |-> "store", fields |-> fields, rows |-> rows]
\* A journal is hot once the pages put aside in it have been written to the
\* file: a reader of the store at its path then plays it back.
JournalFile(hot) == [kind |-> "journal", hot |-> hot]

endswith(path, ext) == path # <<>> /\ path[Len(path)] = ext

exists(path) == path \in DOMAIN dir /\ dir[path] # NoInode

Chars(str) ==
    CASE str = "A" -> <<"A">>
      [] str = "B" -> <<"B">>
      [] str = "Z" -> <<"Z">>
      [] str = "x" -> <<"x">>
      [] str = "AC" -> <<"A", "C">>
      [] str = "+" -> <<"+">>
      [] str = ">A" -> <<">", "A">>
      [] str = ">B x" -> <<">", "B", " ", "x">>
      [] str = "@A" -> <<"@", "A">>
      [] str = "@B x" -> <<"@", "B", " ", "x">>
      [] OTHER -> <<>>

\* The store that may lie at the store's path before the build: two FASTA
\* records, as an earlier build left them.
OldRows ==
    { [id |-> 1, rec |-> [name |-> Chars("Z"), description |-> <<>>,
                          sequence |-> Chars("AC")]],
      [id |-> 2, rec |-> [name |-> Chars("A"), description |-> Chars("x"),
                          sequence |-> <<>>]] }

OldStore == StoreFile(FASTAFIELDTYPES, OldRows)

Formats == {"fasta", "fastq", "hava"}

Fields(fmt) ==
    CASE fmt = "fasta" -> FASTAFIELDTYPES
      [] fmt = "fastq" -> FASTQFIELDTYPES
      [] fmt = "hava" -> HAVAFIELDS

\* The lines a source file of the model is made of.
LineSet(fmt) ==
    CASE fmt = "fasta" -> {Chars(">A"), Chars(">B x"), Chars("AC"), <<>>}
      [] fmt = "fastq" -> {Chars("@A"), Chars("@B x"), Chars("AC"), Chars("+")}
      [] fmt = "hava" -> {Chars("A"), Chars("AC")}

Sources(fmt) ==
    UNION { [1..n -> LineSet(fmt)] : n \in 0..MaxLines }

(***************************************************************************)
(* read_fasta_sequences / read_fastq_sequences / read_hava_sequences and   *)
(* create_db.  build.pc is the place of the call:                          *)
(*   "idle"     not called                                                 *)
(*   "unlink"   in create_db, before the test of os.path.exists            *)
(*   "connect"  before sqlite3.connect                                     *)
(*   "pull"     in the loop "for record in rcrditer"                       *)
(*   "done"     returned;  "failed"  left by an exception                  *)
(***************************************************************************)
NoIter == NewIter("none", <<>>)

NoBuild(fmt, filename, hadOld) ==
    [pc |-> "idle", fmt |-> fmt, filename |-> filename, filepath |-> <<>>,
     fields |-> <<>>, pending |-> {}, hadOld |-> hadOld, error |-> "none"]

\* PRIMARY KEY of the next row: one more than the largest one.
NextRowId(rows) ==
    IF rows = {} THEN 1
    ELSE (CHOOSE r \in rows : \A q \in rows : q.id <= r.id).id + 1

\* data = tuple([record[key] for key in fields])
RowData(fields, record) ==
    [f \in {fields[i] : i \in 1..Len(fields)} |-> record[f]]

\* A table without the unique index: no row is refused.
Duplicate_unindexed(rows, fields, data) == FALSE

\* The UNIQUE INDEX on the first field refuses the row.
Duplicate(rows, fields, data) ==
    \E r \in rows : r.rec[fields[1]] = data[fields[1]]

\* An insert that numbers the rows by the count of the rows before it.
Inserted_zeroBased(rows, data) == rows \cup {[id |-> Cardinality(rows), rec |-> data]}

\* cur.execute(query, data)
Inserted(rows, data) == rows \cup {[id |-> NextRowId(rows), rec |-> data]}

\* theFile = open(filename); iterfunc = ..iter(theFile); create_db(...) up to
\* the extension test.
read_sequences ==
    /\ build.pc = "idle"
    /\ result.op = "none"
    /\ exists(build.filename)
    /\ it' = NewIter(build.fmt, files[dir[build.filename]].lines)
    /\ build' = [build EXCEPT
                   !.pc = "unlink",
                   !.fields = Fields(build.fmt),
                   !.filepath = IF ~endswith(build.filename, fileExtension)
                                THEN Append(build.filename, fileExtension)
                                ELSE build.filename]
    /\ UNCHANGED <<dir, files, db, result, rt>>

\* if os.path.exists(filepath): os.unlink(filepath)
create_db_unlink ==
    /\ build.pc = "unlink"
    /\ dir' = IF exists(build.filepath)
              THEN [dir EXCEPT ![build.filepath] = NoInode]
              ELSE dir
    /\ build' = [build EXCEPT !.pc = "connect"]
    /\ UNCHANGED <<files, it, db, result, rt>>

\* sqlite3.connect, the admin table, the dictionary table, the unique index.
create_db_connect ==
    /\ build.pc = "connect"
    /\ dir' = [dir EXCEPT ![build.filepath] = NewInode]
    /\ files' = [files EXCEPT ![NewInode] = StoreFile(build.fields, {})]
    /\ build' = [build EXCEPT !.pc = "pull", !.pending = {}]
    /\ UNCHANGED <<it, db, result, rt>>

Pulling == build.pc = "pull" /\ it.eof < MaxEofReads

iter_start ==
    /\ Pulling /\ it.pc = "new"
    /\ it' = iter_first(it)
    /\ UNCHANGED <<dir, files, build, db, result, rt>>

fqiter_at_head ==
    /\ Pulling /\ it.kind = "fastq" /\ it.pc = "head"
    /\ it' = fqiter_head(it)
    /\ UNCHANGED <<dir, files, build, db, result, rt>>

fqiter_at_seq ==
    /\ Pulling /\ it.kind = "fastq" /\ it.pc = "seq"
    /\ it' = fqiter_seq(it)
    /\ UNCHANGED <<dir, files, build, db, result, rt>>

fqiter_at_acc ==
    /\ Pulling /\ it.kind = "fastq" /\ it.pc = "acc"
    /\ it' = fqiter_acc(it)
    /\ UNCHANGED <<dir, files, build, db, result, rt>>

faiter_at_head ==
    /\ Pulling /\ it.kind = "fasta" /\ it.pc = "head"
    /\ it' = faiter_head(it)
    /\ UNCHANGED <<dir, files, build, db, result, rt>>

faiter_at_seq ==
    /\ Pulling /\ it.kind = "fasta" /\ it.pc = "seq"
    /\ it' = faiter_seq(it)
    /\ UNCHANGED <<dir, files, build, db, result, rt>>

havaiter_at_head ==
    /\ Pulling /\ it.kind = "hava" /\ it.pc = "head"
    /\ it' = havaiter_head(it)
    /\ UNCHANGED <<dir, files, build, db, result, rt>>

\* The directory and the files once the connection of the build has ended its
\* transaction (commit, or rollback when the connection is dropped): the
\* journal is deleted.
Unjournaled(fs) ==
    [dir |-> [dir EXCEPT ![JournalOf(build.filepath)] = NoInode],
     files |-> [fs EXCEPT ![JournalInode] = NoFile]]

\* The body of the loop for one record: the insert, which the unique index
\* may refuse (the exception leaves create_db, the transaction is lost).
\* The first insert begins the transaction of the inserts and creates the
\* journal; an insert that finds the page cache full (which depends on the
\* sizes of the rows and of the cache, not kept here) writes the pages put
\* aside to the journal, which is hot from then on.
create_db_insert ==
    /\ build.pc = "pull" /\ it.pc = "yield"
    /\ LET data == RowData(build.fields, it.data)
           journal == JournalOf(build.filepath)
           first == build.pending = {}
       IN  IF Duplicate(build.pending, build.fields, data)
           THEN /\ build' = [build EXCEPT !.pc = "failed", !.pending = {},
                                          !.error = "IntegrityError"]
                /\ it' = it
                /\ dir' = Unjournaled(files).dir
                /\ files' = Unjournaled(files).files
           ELSE /\ build' = [build EXCEPT !.pending = Inserted(@, data)]
                /\ it' = iter_resume(it)
                /\ dir' = IF first THEN [dir EXCEPT ![journal] = JournalInode] ELSE dir
                /\ \E spill \in BOOLEAN :
                     files' = IF first \/ exists(journal)
                              THEN [files EXCEPT ![JournalInode] =
                                      JournalFile(spill \/ (~first /\ @.hot))]
                              ELSE files
    /\ UNCHANGED <<db, result, rt>>

\* The iterator raised: the IOError leaves create_db and read_*_sequences.
create_db_raise ==
    /\ build.pc = "pull" /\ it.pc = "error"
    /\ build' = [build EXCEPT !.pc = "failed", !.pending = {}, !.error = "IOError"]
    /\ dir' = Unjournaled(files).dir
    /\ files' = Unjournaled(files).files
    /\ UNCHANGED <<it, db, result, rt>>

\* The iterator is exhausted: con.commit(); con.close(); theFile.close().
\* The commit writes the rows to the store file and deletes the journal; when
\* the journal of its transaction is no longer there (a reader has played it
\* back and deleted it) the commit raises after the rows are written.
create_db_commit ==
    /\ build.pc = "pull" /\ it.pc = "stop"
    /\ LET lost == build.pending # {} /\ ~exists(JournalOf(build.filepath))
           written == [files EXCEPT ![NewInode] = StoreFile(build.fields, build.pending)]
       IN  /\ dir' = Unjournaled(written).dir
           /\ files' = Unjournaled(written).files
           /\ build' = IF lost
                       THEN [build EXCEPT !.pc = "failed", !.pending = {},
                                          !.error = "OperationalError"]
                       ELSE [build EXCEPT !.pc = "done", !.pending = {}]
    /\ UNCHANGED <<it, db, result, rt>>

(***************************************************************************)
(* screedDB, the read-only dictionary over a store file.                   *)
(*   db.state   "none" (no instance), "open", "closed" (_db is None)       *)
(*   db.ino     the file the sqlite handle _db is open on                  *)
(*   db.len     _len: <<n>> for the integer n, <<>> for None               *)
(* A call gives back [op, kind, val]: kind is "ok" or the exception, val   *)
(* the list of the values returned.                                        *)
(***************************************************************************)
NoResult == [op |-> "none", kind |-> "none", val |-> <<>>]
NoDb == [state |-> "none", filepath |-> <<>>, ino |-> NoInode, fieldTuple |-> <<>>,
         queryBy |-> "", len |-> <<>>]
NoRt == [pc |-> "none", fmt |-> "none"]

Ok(op, val) == [op |-> op, kind |-> "ok", val |-> val]
Raised(op, exception) == [op |-> op, kind |-> exception, val |-> <<>>]

Ord(c) ==
    CASE c = "\n" -> 10 [] c = " " -> 32 [] c = "\"" -> 34 [] c = "+" -> 43
      [] c = ">" -> 62 [] c = "@" -> 64 [] c = "A" -> 65 [] c = "B" -> 66
      [] c = "C" -> 67 [] c = "I" -> 73 [] c = "Z" -> 90 [] c = "x" -> 120

\* s < t for strings
RECURSIVE StrLess(_, _)
StrLess(s, t) ==
    IF t = <<>> THEN FALSE
    ELSE IF s = <<>> THEN TRUE
    ELSE IF Head(s) # Head(t) THEN Ord(Head(s)) < Ord(Head(t))
    ELSE StrLess(Tail(s), Tail(t))

\* The rows of a table in the order of the PRIMARY KEY.
RECURSIVE ByRowId(_)
ByRowId(rows) ==
    IF rows = {} THEN <<>>
    ELSE LET r == CHOOSE r \in rows : \A q \in rows : r.id <= q.id
         IN  <<r>> \o ByRowId(rows \ {r})

\* The rows of a table in the order of the unique index on a field.
RECURSIVE ByIndex(_, _)
ByIndex(rows, field) ==
    IF rows = {} THEN <<>>
    ELSE LET r == CHOOSE r \in rows :
                    \A q \in rows : q = r \/ StrLess(r.rec[field], q.rec[field])
         IN  <<r>> \o ByIndex(rows \ {r}, field)

\* The committed rows a handle sees.
Rows(d) == files[d.ino].rows

\* screedUtility.getScreedDB: the path with the extension, the handle on the
\* file there, the field names of its admin table.
getScreedDB(filepath) ==
    LET path == IF endswith(filepath, fileExtension) THEN filepath
                ELSE Append(filepath, fileExtension)
    IN  IF exists(path) /\ files[dir[path]].kind = "store"
        THEN [state |-> "open", filepath |-> path, ino |-> dir[path],
              fieldTuple |-> files[dir[path]].fields,
              queryBy |-> files[dir[path]].fields[1], len |-> <<>>]
        ELSE NoDb

\* SELECT MAX(id) FROM the dictionary table: None when the table is empty.
MaxRowId(rows) == IF rows = {} THEN <<>> ELSE <<NextRowId(rows) - 1>>

\* screedDB.__init__
screedDB(filepath) ==
    LET d == getScreedDB(filepath)
    IN  IF d.state = "open" THEN [d EXCEPT !.len = MaxRowId(Rows(d))] ELSE d

\* screedRecord._buildRecord: the record of the row whose column is the
\* value, with the row's id counted from 0.
Matches(r, column, value) ==
    IF column = "id" THEN r.id = value ELSE r.rec[column] = value

HasRow(rows, column, value) == \E r \in rows : Matches(r, column, value)

_buildRecord(rows, column, value) ==
    LET r == CHOOSE r \in rows : Matches(r, column, value)
    IN  [id |-> r.id - 1, rec |-> r.rec]

\* self._db.cursor() when _db is None
NoCursor(op) == Raised(op, "AttributeError")

\* A key that is no string: an object whose str() is the text (a lazy
\* retrieval object, as the attributes of a record are).
Lazy(text) == <<"object">> \o text
IsObject(key) == key # <<>> /\ Head(key) = "object"

\* key = str(key)
str_key(key) == IF IsObject(key) THEN Tail(key) ELSE key

__getitem__(d, key) ==
    IF d.state = "closed" THEN NoCursor("__getitem__")
    ELSE IF ~HasRow(Rows(d), d.queryBy, str_key(key))
    THEN Raised("__getitem__", "KeyError")
    ELSE Ok("__getitem__", <<_buildRecord(Rows(d), d.queryBy, str_key(key))>>)

\* loadRecordByIndex without the shift of the index to the ids from 1.
loadRecordByIndex_unshifted(d, index) ==
    IF d.state = "closed" THEN NoCursor("loadRecordByIndex")
    ELSE IF ~HasRow(Rows(d), "id", index) THEN Raised("loadRecordByIndex", "KeyError")
    ELSE Ok("loadRecordByIndex", <<_buildRecord(Rows(d), "id", index)>>)

loadRecordByIndex(d, index) ==
    IF d.state = "closed" THEN NoCursor("loadRecordByIndex")
    ELSE IF ~HasRow(Rows(d), "id", index + 1) THEN Raised("loadRecordByIndex", "KeyError")
    ELSE Ok("loadRecordByIndex", <<_buildRecord(Rows(d), "id", index + 1)>>)

\* len(db): __len__ gives _len back, which len() takes only as an integer.
__len__(d) ==
    IF d.len = <<>> THEN Raised("__len__", "TypeError") ELSE Ok("__len__", d.len)

\* list(itervalues()): the records of the ids 1 .. _len
itervalues(d, op) ==
    IF d.state = "closed" THEN NoCursor(op)
    ELSE IF d.len = <<>> THEN Raised(op, "TypeError")
    ELSE IF \E i \in 1..d.len[1] : ~HasRow(Rows(d), "id", i)
    THEN Raised(op, "TypeError")   \* no row of that id: no record is made of None
    ELSE Ok(op, [i \in 1..d.len[1] |-> _buildRecord(Rows(d), "id", i)])

values(d) == itervalues(d, "values")

\* list(iterkeys()): SELECT <first field> FROM the table, with no ORDER BY: the
\* rows come in the order of the scan the engine picks, of the table or of
\* the unique index on the field.
iterkeys(d, plan) ==
    IF d.state = "closed" THEN NoCursor("keys")
    ELSE LET scan == IF plan = "table" THEN ByRowId(Rows(d))
                     ELSE ByIndex(Rows(d), d.queryBy)
         IN  Ok("keys", [i \in 1..Len(scan) |-> scan[i].rec[d.queryBy]])

\* str(id) of a record: the decimal text of the integer (ids are not negative)
Digits == <<"0", "1", "2", "3", "4", "5", "6", "7", "8", "9">>

RECURSIVE str(_)
str(id) ==
    IF id < Len(Digits) THEN <<Digits[id + 1]>>
    ELSE str(id \div Len(Digits)) \o <<Digits[(id % Len(Digits)) + 1]>>

\* list(iteritems()): the pairs (str(v[id]), v)
iteritems(d) ==
    LET vs == itervalues(d, "items")
    IN  IF vs.kind # "ok" THEN vs
        ELSE Ok("items", [i \in 1..Len(vs.val) |-> <<str(vs.val[i].id), vs.val[i]>>])

\* cursor.execute(query, (key,)): the key is bound as it is, and sqlite3 binds
\* strings (numbers, None) and no other object.
__contains__(d, key) ==
    IF d.state = "closed" THEN NoCursor("__contains__")
    ELSE IF IsObject(key) THEN Raised("__contains__", "InterfaceError")
    ELSE Ok("__contains__", <<HasRow(Rows(d), d.queryBy, key)>>)

\* return key in self
has_key(d, key) == [__contains__(d, key) EXCEPT !.op = "has_key"]

\* DictMixin.get(key, default=None): self[key], the default on KeyError
\* (None is the empty list of values here).
get(d, key) ==
    LET got == __getitem__(d, key)
    IN  IF got.kind = "KeyError" THEN Ok("get", <<>>) ELSE [got EXCEPT !.op = "get"]

\* The methods that are not implemented, each with the number of arguments
\* its def takes after self.
Mutators == {"__setitem__", "clear", "update", "setdefault", "pop", "popitem"}

Parameters(op) ==
    CASE op \in {"__setitem__", "update", "setdefault"} -> 1
      [] op \in {"clear", "pop", "popitem"} -> 0

\* A call of a mutator with nargs arguments: the call binds the arguments
\* first (TypeError when the number is wrong), then the body raises.
mutator(op, nargs) ==
    IF nargs # Parameters(op) THEN Raised(op, "TypeError")
    ELSE Raised(op, "AttributeError")

\* The numbers of arguments a caller passes: db[k] = v passes the key and
\* the value; the methods are called with none, one or two.
Arguments(op) == IF op = "__setitem__" THEN {2} ELSE {0, 1, 2}

Keys == {Chars("A"), Chars("B"), Chars("Z"), Lazy(Chars("A"))}
Indexes == (0 - 1)..MaxLines

\* The store is called by the caller of the build, between its calls of
\* read_*_sequences, or beside a build that another thread or process runs.
Beside == rt.pc = "beside"
Quiet == (Beside \/ build.pc \in {"idle", "done", "failed"}) /\ result.op = "none"
Live == Quiet /\ db.state \in {"open", "closed"}

Gives(r) == /\ result' = r
            /\ UNCHANGED <<dir, files, build, it, db, rt>>

\* The connection of the build holds the RESERVED lock on its store file from
\* the first insert to the end of the transaction.
Reserved(ino) == build.pc = "pull" /\ build.pending # {} /\ ino = NewInode

\* What sqlite finds when a statement of the handle starts to read: a hot
\* journal under the name of the store the handle was opened at, and no
\* RESERVED lock on the file the handle is open on.
HotJournal(d) ==
    /\ d.state = "open"
    /\ exists(JournalOf(d.filepath))
    /\ files[dir[JournalOf(d.filepath)]].hot
    /\ ~Reserved(d.ino)

\* The playback of the journal into the file of the handle: the pages of the
\* dictionary table and of its index go back to what the journal holds, the
\* empty table the transaction of the inserts began with; the pages of the
\* admin table are not in the journal.  The journal is deleted.
Played(d) ==
    [dir |-> [dir EXCEPT ![JournalOf(d.filepath)] = NoInode],
     files |-> [files EXCEPT ![d.ino].rows = {}, ![JournalInode] = NoFile]]

\* A call that runs a statement on the handle (queries) when it gets that far.
Reads(r, queries) ==
    /\ LET now == IF queries /\ HotJournal(db) THEN Played(db)
                  ELSE [dir |-> dir, files |-> files]
       IN  dir' = now.dir /\ files' = now.files
    /\ UNCHANGED <<build, it, db, rt>>
    /\ result' = r'

\* itervalues runs a statement for each index of xrange(1, _len + 1).
Iterates(d) == d.state = "open" /\ d.len # <<>> /\ d.len[1] >= 1

screedDB_init ==
    /\ Quiet /\ db.state = "none"
    /\ \E filepath \in Paths :
         LET d == screedDB(filepath)
         IN  /\ db' = d
             /\ result' = IF d.state = "open" THEN Ok("__init__", <<>>)
                          ELSE Raised("__init__", "IOError")
    /\ UNCHANGED <<dir, files, build, it, rt>>

\* close(): closes the handle once, later calls find _db None.
close ==
    /\ Live
    /\ db' = [db EXCEPT !.state = "closed"]
    /\ result' = Ok("close", <<>>)
    /\ UNCHANGED <<dir, files, build, it, rt>>

screedDB_getitem == Live /\ \E key \in Keys : Reads(__getitem__(db, key), TRUE)

screedDB_loadRecordByIndex ==
    Live /\ \E index \in Indexes : Reads(loadRecordByIndex(db, index), TRUE)

screedDB_len == Live /\ Gives(__len__(db))

screedDB_values == Live /\ Reads(values(db), Iterates(db))

screedDB_keys ==
    Live /\ \E plan \in {"table", "index"} : Reads(iterkeys(db, plan), TRUE)

screedDB_items == Live /\ Reads(iteritems(db), Iterates(db))

screedDB_contains ==
    Live /\ \E key \in Keys : Reads(__contains__(db, key), ~IsObject(key))

screedDB_has_key ==
    Live /\ \E key \in Keys : Reads(has_key(db, key), ~IsObject(key))

screedDB_get == Live /\ \E key \in Keys : Reads(get(db, key), TRUE)

screedDB_mutator ==
    Live /\ \E op \in Mutators : \E nargs \in Arguments(op) : Gives(mutator(op, nargs))

\* The caller takes the outcome of the call and goes on.
returned ==
    /\ result.op # "none"
    /\ result' = NoResult
    /\ UNCHANGED <<dir, files, build, it, db, rt>>

Store ==
    \/ screedDB_init
    \/ close
    \/ screedDB_getitem
    \/ screedDB_loadRecordByIndex
    \/ screedDB_len
    \/ screedDB_values
    \/ screedDB_keys
    \/ screedDB_items
    \/ screedDB_contains
    \/ screedDB_has_key
    \/ screedDB_get
    \/ screedDB_mutator
    \/ returned

\* The names a source text file has: without the extension of a store, or
\* ending with it already.
SourceNames == {SourceName, StoreName}

Init ==
    /\ \E fmt \in Formats : \E lines \in Sources(fmt), hadOld \in BOOLEAN :
       \E filename \in SourceNames :
         /\ hadOld => filename # StoreName
         /\ dir = [p \in Paths |->
                     IF p = filename THEN SourceInode
                     ELSE IF p = StoreName /\ hadOld THEN OldInode
                     ELSE NoInode]
         /\ files = [i \in Inodes |->
                       IF i = SourceInode THEN TextFile(lines)
                       ELSE IF i = OldInode /\ hadOld THEN OldStore
                       ELSE NoFile]
         /\ build = NoBuild(fmt, filename, hadOld)
    /\ it = NoIter
    /\ db = NoDb
    /\ result = NoResult
    /\ rt = NoRt

Build ==
    \/ read_sequences
    \/ create_db_unlink
    \/ create_db_connect
    \/ iter_start
    \/ fqiter_at_head
    \/ fqiter_at_seq
    \/ fqiter_at_acc
    \/ faiter_at_head
    \/ faiter_at_seq
    \/ havaiter_at_head
    \/ create_db_insert
    \/ create_db_raise
    \/ create_db_commit

Next == Build \/ Store

Spec == Init /\ [][Next]_vars

(***************************************************************************)
(* A rebuild with a reader beside it: a store lies at the path of the      *)
(* build, and the calls of the reader fall between the steps of the build. *)
(***************************************************************************)
RbSources(fmt) ==
    UNION { [1..n -> LineSet(fmt)] : n \in 0..RbMaxLines }

RbInit ==
    /\ \E fmt \in Formats : \E lines \in RbSources(fmt) :
         /\ dir = [p \in Paths |->
                     IF p = SourceName THEN SourceInode
                     ELSE IF p = StoreName THEN OldInode
                     ELSE NoInode]
         /\ files = [i \in Inodes |->
                       IF i = SourceInode THEN TextFile(lines)
                       ELSE IF i = OldInode THEN OldStore
                       ELSE NoFile]
         /\ build = NoBuild(fmt, SourceName, TRUE)
    /\ it = NoIter
    /\ db = NoDb
    /\ result = NoResult
    /\ rt = [pc |-> "beside", fmt |-> "none"]

SpecRebuild == RbInit /\ [][Next]_vars

(***************************************************************************)
(* The recovery run of the tests: a store is built from a source file,     *)
(* written out by toFasta / toFastq, and a store is built from that text.  *)
(* Each call is one step here.  rt.pc: "source", "built" ("invalid" when   *)
(* the source is refused), "dumped", "rebuilt", or "failed" when toFasta / *)
(* toFastq or the second build raised.                                     *)
(***************************************************************************)
\* The loop of create_db over the records of an iterator, and what ends it.
RECURSIVE InsertAll(_, _, _)
InsertAll(rows, fields, records) ==
    IF records = <<>> THEN [error |-> "none", rows |-> rows]
    ELSE LET data == RowData(fields, Head(records))
         IN  IF Duplicate(rows, fields, data)
             THEN [error |-> "IntegrityError", rows |-> {}]
             ELSE InsertAll(Inserted(rows, data), fields, Tail(records))

\* create_db as one call: the rows committed, or the exception that left it
\* ("hang" when the iterator does not come back).
create_db(fields, parsed) ==
    IF parsed.pc = "stop" THEN InsertAll({}, fields, parsed.records)
    ELSE LET done == InsertAll({}, fields, parsed.records)
         IN  IF done.error # "none" THEN done
             ELSE [error |-> IF parsed.pc = "error" THEN "IOError" ELSE "hang",
                   rows |-> {}]

\* linewrap: the pieces of _MAXLINELEN characters, joined by newlines
RECURSIVE pieces(_, _)
pieces(longString, begin) ==
    IF begin < Len(longString)
    THEN <<SubSeq(longString, begin + 1,
                  IF begin + _MAXLINELEN < Len(longString)
                  THEN begin + _MAXLINELEN ELSE Len(longString))>>
         \o pieces(longString, begin + _MAXLINELEN)
    ELSE <<>>

linewrap(longString) == joinNL(pieces(longString, 0))

getComments(value) ==
    IF "description" \in DOMAIN value.rec THEN value.rec["description"]
    ELSE IF "annotations" \in DOMAIN value.rec THEN value.rec["annotations"]
    ELSE <<>>

generateAccuracy(value) ==
    IF "accuracy" \in DOMAIN value.rec THEN linewrap(value.rec["accuracy"])
    ELSE linewrap([i \in 1..Len(value.rec["sequence"]) |-> _null_accuracy])

\* '@%s %s\n%s\n+\n%s\n'
FastqText(value) ==
    <<"@">> \o value.rec["name"] \o <<" ">> \o getComments(value) \o <<"\n">>
    \o linewrap(value.rec["sequence"]) \o <<"\n", "+", "\n">>
    \o generateAccuracy(value) \o <<"\n">>

\* '>%s %s\n%s\n'
FastaText(value) ==
    <<">">> \o value.rec["name"] \o <<" ">> \o getComments(value) \o <<"\n">>
    \o linewrap(value.rec["sequence"]) \o <<"\n">>

\* The text toFastq / toFasta write for the records of itervalues().
RECURSIVE Written(_, _)
Written(fmt, vs) ==
    IF vs = <<>> THEN <<>>
    ELSE (IF fmt = "fastq" THEN FastqText(Head(vs)) ELSE FastaText(Head(vs)))
         \o Written(fmt, Tail(vs))

Long == [i \in 1..(_MAXLINELEN + 1) |-> "A"]

RtFormats == {"fasta", "fastq"}

RtLineSet(fmt) ==
    IF fmt = "fasta" THEN {Chars(">A"), Chars(">B x"), Chars("AC"), Long}
    ELSE {Chars("@A"), Chars("@B x"), Chars("AC"), Chars("+"), Long}

RtSources(fmt) ==
    UNION { [1..n -> RtLineSet(fmt)] : n \in 1..RtMaxLines }

\* read_fasta_sequences / read_fastq_sequences as one call on the file at
\* filename: the directory and the files it leaves, and whether it raised.
ReadSequences(fmt, filename, inode) ==
    LET filepath == IF ~endswith(filename, fileExtension)
                    THEN Append(filename, fileExtension) ELSE filename
        made == create_db(Fields(fmt), Parsed(fmt, files[dir[filename]].lines))
    IN  [dir |-> [dir EXCEPT ![filepath] = inode],
         files |-> [files EXCEPT ![inode] = StoreFile(Fields(fmt), made.rows)],
         error |-> made.error]

recover_build ==
    /\ rt.pc = "source"
    /\ LET call == ReadSequences(rt.fmt, SourceName, NewInode)
       IN  /\ dir' = call.dir
           /\ files' = call.files
           /\ rt' = [rt EXCEPT !.pc = IF call.error = "none" THEN "built" ELSE "invalid"]
    /\ UNCHANGED <<build, it, db, result>>

\* toFasta / toFastq: the output file is opened first, then the store.
recover_dump ==
    /\ rt.pc = "built"
    /\ LET d == screedDB(SourceName)
           vs == itervalues(d, "itervalues")
       IN  /\ dir' = [dir EXCEPT ![OutName] = OutInode]
           /\ files' = [files EXCEPT ![OutInode] =
                          TextFile(IF vs.kind = "ok"
                                   THEN splitlines(Written(rt.fmt, vs.val))
                                   ELSE <<>>)]
           /\ rt' = [rt EXCEPT !.pc = IF vs.kind = "ok" THEN "dumped" ELSE "failed"]
    /\ UNCHANGED <<build, it, db, result>>

recover_rebuild ==
    /\ rt.pc = "dumped"
    /\ LET call == ReadSequences(rt.fmt, OutName, OutStoreInode)
       IN  /\ dir' = call.dir
           /\ files' = call.files
           /\ rt' = [rt EXCEPT !.pc = IF call.error = "none" THEN "rebuilt" ELSE "failed"]
    /\ UNCHANGED <<build, it, db, result>>

RtInit ==
    /\ \E fmt \in RtFormats : \E lines \in RtSources(fmt) :
         /\ dir = [p \in Paths |-> IF p = SourceName THEN SourceInode ELSE NoInode]
         /\ files = [i \in Inodes |-> IF i = SourceInode THEN TextFile(lines) ELSE NoFile]
         /\ rt = [pc |-> "source", fmt |-> fmt]
    /\ build = NoBuild("none", SourceName, FALSE)
    /\ it = NoIter
    /\ db = NoDb
    /\ result = NoResult

RtNext == recover_build \/ recover_dump \/ recover_rebuild

SpecRecover == RtInit /\ [][RtNext]_vars

(***************************************************************************)
(* Properties.                                                             *)
(***************************************************************************)
\* The records the iterator of the build yields from the source file.
SourceLines == files[SourceInode].lines
SourceRecords == Parsed(build.fmt, SourceLines).records

\* fqiter raised because len(sequence) != len(accuracy).
LengthMismatch ==
    /\ it.kind = "fastq" /\ it.pc = "error"
    /\ "accuracy" \in DOMAIN it.data
    /\ Len(it.data["sequence"]) # Len(it.data["accuracy"])

\* C1: once a FASTQ build has failed on a record whose sequence and accuracy
\* differ in length, no store file exists at the target path.
C1_NoStoreAfterLengthMismatch ==
    (build.pc = "failed" /\ LengthMismatch) => ~exists(build.filepath)

\* C2: whenever the build has failed, a store that lay at the target path
\* before the build is still there with its original records.
C2_OldStoreKeptOnFailure ==
    (build.hadOld /\ build.pc = "failed")
        => (exists(StoreName) /\ files[dir[StoreName]] = OldStore)

\* C3: no parser keeps reading at end of stream: the reads that hit the end of
\* the stream are at most one per field of a record (six, havaiter's).
C3_ParsersStopAtEndOfStream == it.eof <= Len(HAVAFIELDS)

\* The caller's instance is open on the store the build has completed.
OnBuiltStore == build.pc = "done" /\ db.state = "open" /\ db.ino = NewInode

\* C5: keys() gives the keys in RowID order: the k-th key (from 0) is the key
\* of the record whose row index is k.
C5_KeysInRowIdOrder ==
    (OnBuiltStore /\ result.op = "keys" /\ result.kind = "ok")
        => \A k \in 1..Len(result.val) :
             LET got == __getitem__(db, result.val[k])
             IN  got.kind = "ok" /\ got.val[1].id = k - 1

\* C6: every call of a mutating operation fails with the unsupported-operation
\* failure (AttributeError), whatever its arguments.
C6_MutatorsUnsupported ==
    result.op \in Mutators => result.kind = "AttributeError"

ReadOps == {"__getitem__", "loadRecordByIndex", "__contains__", "__len__",
            "keys", "values", "items"}

\* C7: after close() every read operation signals a failure of a kind of its
\* own, neither a result, nor not-found, nor the unsupported-operation kind.
C7_ClosedStoreSignalsClosed ==
    (db.state = "closed" /\ result.op \in ReadOps)
        => result.kind \notin {"ok", "KeyError", "AttributeError"}

\* C8: on an open store, for every key k that iterating the store produces,
\* loadRecordByIndex(get(k).id) gives a record equal to get(k).
C8_IndexAndKeyAgree ==
    db.state = "open" =>
        \A plan \in {"table", "index"} :
          LET ks == iterkeys(db, plan).val
          IN  \A i \in 1..Len(ks) :
                LET got == __getitem__(db, ks[i])
                IN  /\ got.kind = "ok"
                    /\ loadRecordByIndex(db, got.val[1].id).kind = "ok"
                    /\ loadRecordByIndex(db, got.val[1].id).val = got.val

\* C8 witness: loadRecordByIndex has given the second record of a store, the
\* one its key gives too.
C8_Witness ==
    /\ db.state = "open" /\ result.op = "loadRecordByIndex" /\ result.kind = "ok"
    /\ result.val[1].id = 1
    /\ result.val = __getitem__(db, result.val[1].rec[db.queryBy]).val

\* C9: after a successful build from the records r_1 .. r_n, the RowIDs are
\* exactly 1 .. n in insertion order: loadRecordByIndex(i) gives r_(i+1) for
\* 0 <= i < n and KeyError for every other index.
C9_RowIdsContiguous ==
    build.pc = "done" =>
        LET rs == SourceRecords
            d == screedDB(build.filename)
        IN  /\ d.state = "open"
            /\ {r.id : r \in Rows(d)} = 1..Len(rs)
            /\ \A i \in Indexes :
                 loadRecordByIndex(d, i) =
                   IF 0 <= i /\ i < Len(rs)
                   THEN Ok("loadRecordByIndex",
                           <<[id |-> i, rec |-> RowData(build.fields, rs[i + 1])]>>)
                   ELSE Raised("loadRecordByIndex", "KeyError")

\* C9 witness: on a store built from two records or more, loadRecordByIndex
\* has given the second record, and has raised KeyError beyond the last.
C9_Witness ==
    /\ OnBuiltStore /\ Len(SourceRecords) >= 2
    /\ result.op = "loadRecordByIndex" /\ result.kind = "ok"
    /\ result.val[1] = [id |-> 1, rec |-> RowData(build.fields, SourceRecords[2])]

\* C10: on a store built from a FASTA or FASTQ input of n parsed records (any
\* n >= 0), len() is n and keys(), values() and items() have n elements each.
C10_LengthIsRecordCount ==
    (OnBuiltStore /\ build.fmt \in {"fasta", "fastq"}) =>
        /\ result.op = "__len__" => result = Ok("__len__", <<Len(SourceRecords)>>)
        /\ result.op \in {"keys", "values", "items"}
             => (result.kind = "ok" /\ Len(result.val) = Len(SourceRecords))

\* The stepwise build and the build as one call leave the same store.
BuildAgrees ==
    build.pc \in {"done", "failed"} =>
        LET made == create_db(build.fields, Parsed(build.fmt, SourceLines))
        IN  /\ (build.pc = "done") = (made.error = "none")
            /\ files[NewInode] = StoreFile(build.fields, made.rows)

\* C4: the store rebuilt from the text that toFasta / toFastq wrote for a
\* store has the same number of records as that store, and its records are
\* field-wise equal to the store's, row by row.
C4_RoundTrip ==
    rt.pc \in {"dumped", "rebuilt", "failed"} =>
        /\ rt.pc # "failed"
        /\ rt.pc = "rebuilt" => files[OutStoreInode].rows = files[NewInode].rows

\* The answers of a handle on the original store, whatever lies in the files.
OriginalGet(key) ==
    IF HasRow(OldRows, OldStore.fields[1], str_key(key))
    THEN Ok("__getitem__", <<_buildRecord(OldRows, OldStore.fields[1], str_key(key))>>)
    ELSE Raised("__getitem__", "KeyError")

OriginalByIndex(index) ==
    IF HasRow(OldRows, "id", index + 1)
    THEN Ok("loadRecordByIndex", <<_buildRecord(OldRows, "id", index + 1)>>)
    ELSE Raised("loadRecordByIndex", "KeyError")

OriginalValues ==
    [i \in 1..Cardinality(OldRows) |-> _buildRecord(OldRows, "id", i)]

\* A handle opened on the store that lay at the path before the build began.
OnOldStore == db.state = "open" /\ db.ino = OldInode /\ build.pc # "idle"

\* C11: during and after a rebuild at its path, every get, getByIndex, length
\* and iteration of a handle that was open on the old store gives exactly the
\* records of the old store.
C11_OpenStoreKeepsOriginal ==
    OnOldStore =>
        /\ \A key \in Keys : __getitem__(db, key) = OriginalGet(key)
        /\ \A index \in Indexes : loadRecordByIndex(db, index) = OriginalByIndex(index)
        /\ __len__(db) = Ok("__len__", <<Cardinality(OldRows)>>)
        /\ values(db) = Ok("values", OriginalValues)
        /\ \A plan \in {"table", "index"} :
             {iterkeys(db, plan).val[i] : i \in 1..Len(iterkeys(db, plan).val)}
               = {r.rec[OldStore.fields[1]] : r \in OldRows}

\* Two of the records have the same value of the first field.
Clash(rs, field) ==
    \E i, j \in 1..Len(rs) : i < j /\ rs[i][field] = rs[j][field]

\* C12: a build whose records hold the same value of the first field twice
\* fails with the uniqueness violation (IntegrityError) at the insert of the
\* second of them; in a store that a build completed, the keys are pairwise
\* distinct and get(key) gives exactly the one record of the key.
C12_DuplicateKeyFailsBuild ==
    LET rs == SourceRecords
        first == build.fields[1]
    IN  /\ (build.pc \in {"done", "failed"} /\ Clash(rs, first))
             => (build.pc = "failed" /\ build.error = "IntegrityError")
        /\ build.error = "IntegrityError"
             => /\ it.pc = "yield"
                /\ \E i, j \in 1..Len(rs) :
                     /\ i < j /\ rs[j] = it.data
                     /\ rs[i][first] = it.data[first]
                     /\ ~Clash(SubSeq(rs, 1, j - 1), first)
                /\ files[NewInode].rows = {}
        /\ build.pc = "done"
             => LET d == screedDB(build.filename)
                    rows == files[dir[build.filepath]].rows
                IN  /\ Cardinality(rows) = Len(rs)
                    /\ \A r, q \in rows : r.rec[first] = q.rec[first] => r = q
                    /\ \A r \in rows :
                         __getitem__(d, r.rec[first])
                           = Ok("__getitem__", <<[id |-> r.id - 1, rec |-> r.rec]>>)

\* C12 witness: a build has failed at the insert of a record whose key an
\* earlier record of the source has.
C12_Witness ==
    /\ build.pc = "failed" /\ build.error = "IntegrityError"
    /\ it.pc = "yield" /\ Clash(SourceRecords, build.fields[1])

\* The records of a FASTA stream by the grammar: one record for each line
\* that begins with '>', its sequence all the lines up to the next such line
\* or the end of the stream, put together without separators.
RECURSIVE GrammarFasta(_, _)
GrammarFasta(lines, out) ==
    IF lines = <<>> THEN out
    ELSE IF startswith(Head(lines), ">")
    THEN LET hf == HeaderFields(Head(lines), "description")
             r == [f \in {"name", "description", "sequence"} |->
                     IF f = "sequence" THEN <<>> ELSE strip(hf[f])]
         IN  GrammarFasta(Tail(lines), Append(out, r))
    ELSE GrammarFasta(Tail(lines),
                      [out EXCEPT ![Len(out)]["sequence"] = @ \o strip(Head(lines))])

\* Some line of the stream holds more than whitespace.
HasText(lines) == \E i \in 1..Len(lines) : strip(lines[i]) # <<>>

\* C13: on a stream that holds text, faiter raises the format error exactly
\* when the first line does not begin with '>', and otherwise yields exactly
\* the records of the grammar, in the order of the stream.
C13_FastaGrammar ==
    (it.kind = "fasta" /\ it.pc \in {"stop", "error"} /\ HasText(SourceLines)) =>
        /\ it.pc = "error" <=> ~startswith(SourceLines[1], ">")
        /\ it.pc = "stop" => SourceRecords = GrammarFasta(SourceLines, <<>>)

\* C14: on an open store, no membership test ('in', has_key) raises; for
\* every key it is true exactly when [] gives a record and false exactly when
\* [] raises KeyError, and get gives the default, None, where [] raises
\* KeyError.
C14_ContainsAgreesWithGet ==
    db.state = "open" =>
        /\ result.op \in {"__contains__", "has_key"} => result.kind = "ok"
        /\ \A key \in Keys :
             __contains__(db, key).kind = "ok" =>
                /\ has_key(db, key).val = __contains__(db, key).val
                /\ __contains__(db, key).val = <<TRUE>>
                     <=> __getitem__(db, key).kind = "ok"
                /\ __contains__(db, key).val = <<FALSE>>
                     <=> __getitem__(db, key).kind = "KeyError"
                /\ get(db, key).kind = "ok"
                /\ get(db, key).val = IF __getitem__(db, key).kind = "ok"
                                      THEN __getitem__(db, key).val ELSE <<>>

\* C15: every pair (k, v) that items() gives on a store that was built and
\* opened has the key of v as k: k is an element of keys() and get(k) is v.
C15_ItemsPairKeyWithRecord ==
    (OnBuiltStore /\ result.op = "items" /\ result.kind = "ok") =>
        \A i \in 1..Len(result.val) :
            LET k == result.val[i][1]
                v == result.val[i][2]
            IN  /\ \E j \in 1..Len(iterkeys(db, "table").val) :
                     iterkeys(db, "table").val[j] = k
                /\ __getitem__(db, k) = Ok("__getitem__", <<v>>)

\* C16: after a build, completed or failed, the source text file is still at
\* its name with its content, and the store was written to another path.
C16_SourceFileKept ==
    build.pc \in {"done", "failed"} =>
        /\ exists(build.filename)
        /\ files[dir[build.filename]] = TextFile(SourceLines)
        /\ build.filepath # build.filename

====
